---- MODULE Spec2Model ----
(***************************************************************************)
(* A model of src/index.js: the useQiblaCompass hook (its five state       *)
(* cells, the asynchronous initCompass, the magnetometer subscription and  *)
(* the values derived on every render) together with the two providers it  *)
(* talks to (expo-sensors' Magnetometer and expo-location).                *)
(*                                                                         *)
(* Angles are kept in hundredths of a degree (Deg = 100), so 22.5 degrees  *)
(* is 2250 and the two decimals the component prints of qiblad are exact.  *)
(* Math.sin, Math.cos, Math.tan and Math.atan2 are computed in fixed point *)
(* (results scaled by Scale); geographic coordinates are in 1/10000 of a   *)
(* degree, the precision of the target's coordinates in the source.        *)
(***************************************************************************)
EXTENDS Integers, FiniteSets, Sequences, TLC

----------------------------------------------------------------------------
(* Units *)

Deg == 10 ^ 2          \* one degree, in the unit of every angle of the state
Scale == 10 ^ 4        \* fixed-point scale of the trigonometric values
Geo == 10 ^ 4          \* one degree of latitude/longitude, in coordinate units

Null == "null"          \* null in a cell that otherwise holds a string
None == <<>>           \* null in a cell that otherwise holds an object

----------------------------------------------------------------------------
(* Math: fixed-point trigonometry *)

\* x * PI / 180 for x in coordinate units (0 .. 90 degrees), as radians * Scale
Radians(a) == (a * 1745) \div (10 ^ 5) + (a * 33) \div (10 ^ 7)

\* sin on [0, 90] degrees: the Taylor series up to x^9 in Horner form
SinQ(a) ==
    LET x  == Radians(a)
        x2 == (x * x) \div Scale
        t4 == Scale - x2 \div 72
        t3 == Scale - ((x2 * t4) \div Scale) \div 42
        t2 == Scale - ((x2 * t3) \div Scale) \div 20
        t1 == Scale - ((x2 * t2) \div Scale) \div 6
    IN  (x * t1) \div Scale

\* Math.sin of an angle given in coordinate units, times Scale
Sin(a) ==
    LET m == a % (360 * Geo)
    IN  IF m <= 90 * Geo THEN SinQ(m)
        ELSE IF m <= 180 * Geo THEN SinQ(180 * Geo - m)
        ELSE IF m <= 270 * Geo THEN 0 - SinQ(m - 180 * Geo)
        ELSE 0 - SinQ(360 * Geo - m)

\* Math.cos of an angle given in coordinate units, times Scale
Cos(a) == Sin(a + 90 * Geo)

\* Math.tan of an angle given in coordinate units, times Scale
Tan(a) == (Sin(a) * Scale) \div Cos(a)

\* is the direction of the vector (x, y) at or counter-clockwise of the angle m
\* (hundredths of a degree), for both within the same half turn
AtOrPast(m, y, x) ==
    Cos(m * (Geo \div Deg)) * y - Sin(m * (Geo \div Deg)) * x >= 0

\* the largest angle m in lo .. hi with AtOrPast(m, y, x), by bisection
RECURSIVE Bisect(_, _, _, _)
Bisect(lo, hi, y, x) ==
    IF lo >= hi THEN lo
    ELSE LET mid == (lo + hi + 1) \div 2
         IN  IF AtOrPast(mid, y, x) THEN Bisect(mid, hi, y, x)
             ELSE Bisect(lo, mid - 1, y, x)

\* Math.atan2(y, x) in hundredths of a degree, in -180*Deg .. 180*Deg
Atan2(y, x) ==
    IF x = 0 /\ y = 0 THEN 0
    ELSE IF y >= 0 THEN Bisect(0, 180 * Deg, y, x)
    ELSE 0 - Bisect(0, 180 * Deg - 1, 0 - y, x) - 1

\* Math.round of an angle in hundredths of a degree: the nearest whole
\* degree, halves upward
Round(a) == ((a + Deg \div 2) \div Deg) * Deg

----------------------------------------------------------------------------
(* Bounds and inputs *)

MaxCalls == 2          \* initCompass invocations in one behaviour
MaxMounts == 2         \* times the component is mounted in one behaviour

Calls == 1 .. MaxCalls

\* magnetometer readings {x, y} the sensor delivers; None is a missing reading
Samples ==
    { [x |-> 1, y |-> 0], [x |-> 0, y |-> 1], [x |-> 1, y |-> 57],
      [x |-> 1000, y |-> -1], [x |-> -1, y |-> 0], [x |-> 0, y |-> -1] }
    \cup {None}

LatK == 214225         \* 21.4225 degrees north
LongK == 398264        \* 39.8264 degrees east

\* location.coords the location provider returns, in coordinate units
Positions ==
    { [latitude |-> 0, longitude |-> LongK],
      [latitude |-> 60 * Geo, longitude |-> LongK],
      [latitude |-> 438563, longitude |-> 184131] }

Fail == [rejected |-> TRUE]     \* getCurrentPositionAsync rejects

\* what the providers answer to one initCompass
Responses ==
    [avail : BOOLEAN, status : {"granted", "denied"}, loc : Positions \cup {Fail}]

ErrCompass == "Compass is not available on this device"
ErrPermission == "Location permission not granted"
UpdateIntervalMs == 100

----------------------------------------------------------------------------
(* The pure functions of the hook *)

\* angle: the reading's direction in whole degrees, 0 for a missing reading
angle(data) ==
    LET a == IF data # None
             THEN IF Atan2(data.y, data.x) >= 0
                  THEN Atan2(data.y, data.x)
                  ELSE Atan2(data.y, data.x) + 360 * Deg
             ELSE 0
    IN  Round(a)

\* direction with the first boundary excluded
directionOpenBoundary(d) ==
    IF d > 2250 /\ d < 6750 THEN "NE"
    ELSE IF d >= 6750 /\ d < 11250 THEN "E"
    ELSE IF d >= 11250 /\ d < 15750 THEN "SE"
    ELSE IF d >= 15750 /\ d < 20250 THEN "S"
    ELSE IF d >= 20250 /\ d < 24750 THEN "SW"
    ELSE IF d >= 24750 /\ d < 29250 THEN "W"
    ELSE IF d >= 29250 /\ d < 33750 THEN "NW"
    ELSE "N"

direction(d) ==
    IF d >= 2250 /\ d < 6750 THEN "NE"
    ELSE IF d >= 6750 /\ d < 11250 THEN "E"
    ELSE IF d >= 11250 /\ d < 15750 THEN "SE"
    ELSE IF d >= 15750 /\ d < 20250 THEN "S"
    ELSE IF d >= 20250 /\ d < 24750 THEN "SW"
    ELSE IF d >= 24750 /\ d < 29250 THEN "W"
    ELSE IF d >= 29250 /\ d < 33750 THEN "NW"
    ELSE "N"

\* degree wrapping by a full turn
degreeSymmetric(m) == IF m - 90 * Deg >= 0 THEN m - 90 * Deg ELSE m + 270 * Deg

degree(m) == IF m - 90 * Deg >= 0 THEN m - 90 * Deg ELSE m + 271 * Deg

\* calculate with the two terms of the second atan2 argument exchanged
calculateExchanged(latitude, longitude) ==
    LET latk   == LatK
        longk  == LongK
        phi    == latitude
        lambda == longitude
    IN  Atan2(Sin(longk - lambda),
              (Sin(phi) * Cos(longk - lambda)) \div Scale
                  - (Cos(phi) * Tan(latk)) \div Scale)

\* the bearing from (latitude, longitude) to the Kaaba
calculate(latitude, longitude) ==
    LET latk   == LatK
        longk  == LongK
        phi    == latitude
        lambda == longitude
    IN  Atan2(Sin(longk - lambda),
              (Cos(phi) * Tan(latk)) \div Scale
                  - (Sin(phi) * Cos(longk - lambda)) \div Scale)

\* the readings' angles and the positions' bearings, computed once
AngleOf == [d \in Samples |-> angle(d)]
BearingOf == [p \in Positions |-> calculate(p.latitude, p.longitude)]

----------------------------------------------------------------------------
(* State *)

VARIABLES
    mounted,        \* the component using the hook is mounted
    inst,           \* the number of the hook instance (one per mount)
    effectRan,      \* the mount effect of this instance has run
    subscription,   \* useState(null)
    magnetometer,   \* useState(0)
    qiblad,         \* useState(0)
    error,          \* useState(null)
    isLoading,      \* useState(true)
    snap,           \* what the last render of the hook returned
    calls,          \* the initCompass invocations and where each one is
    listeners,      \* Magnetometer: the listeners added and not removed
    removes,        \* Magnetometer: how often each listener's remove() ran
    updateInterval, \* Magnetometer: the interval last set, 0 before any
    accepted,       \* a reading has reached this hook instance
    arg,            \* the leaf functions alone: the argument drawn
    out             \* the leaf functions alone: the function applied, its value

hookVars == <<subscription, magnetometer, qiblad, error, isLoading>>
leafVars == <<arg, out>>
vars == <<mounted, inst, effectRan, subscription, magnetometer, qiblad, error,
          isLoading, snap, calls, listeners, removes, updateInterval, accepted,
          arg, out>>

\* no leaf function applied yet
NotApplied == [fn |-> "none"]

\* the state cells of the hook as one record
Hook ==
    [subscription |-> subscription, magnetometer |-> magnetometer,
     qiblad |-> qiblad, error |-> error, isLoading |-> isLoading]

\* InitialState with useState(90) for the reading
InitialStateFacingEast ==
    [subscription |-> None, magnetometer |-> 90 * Deg, qiblad |-> 0,
     error |-> Null, isLoading |-> TRUE]

InitialState ==
    [subscription |-> None, magnetometer |-> 0, qiblad |-> 0, error |-> Null,
     isLoading |-> TRUE]

\* Render with the face rotation taken from the raw reading
RenderRawRotation(h) ==
    [qiblad           |-> h.qiblad,
     compassDirection |-> direction(degree(h.magnetometer)),
     compassDegree    |-> degree(h.magnetometer),
     compassRotate    |-> 360 * Deg - h.magnetometer,
     kabaRotate       |-> 360 * Deg - degree(h.magnetometer) + h.qiblad,
     error            |-> h.error,
     isLoading        |-> h.isLoading]

\* Render with the label taken from the raw reading
RenderLabelOfReading(h) ==
    [qiblad           |-> h.qiblad,
     compassDirection |-> direction(h.magnetometer),
     compassDegree    |-> degree(h.magnetometer),
     compassRotate    |-> 360 * Deg - degree(h.magnetometer),
     kabaRotate       |-> 360 * Deg - degree(h.magnetometer) + h.qiblad,
     error            |-> h.error,
     isLoading        |-> h.isLoading]

\* the hook's return value for the state h
Render(h) ==
    [qiblad           |-> h.qiblad,
     compassDirection |-> direction(degree(h.magnetometer)),
     compassDegree    |-> degree(h.magnetometer),
     compassRotate    |-> 360 * Deg - degree(h.magnetometer),
     kabaRotate       |-> 360 * Deg - degree(h.magnetometer) + h.qiblad,
     error            |-> h.error,
     isLoading        |-> h.isLoading]

\* what the component shows for a return value s of the hook: the activity
\* indicator while loading, the error text, or the compass alone; and nothing
\* before the mount effect or after the unmount
Phase(s) ==
    IF s.isLoading THEN "Initializing"
    ELSE IF s.error # Null THEN "Failed"
    ELSE "Ready"

Lifecycle == IF ~mounted \/ ~effectRan THEN "Idle" ELSE Phase(snap)

\* an initCompass not yet invoked. Of an invocation the model records where it
\* is (pc), the hook instance it belongs to, whether it is a reinitCompass,
\* what the hook showed and whether another invocation was under way when it
\* started, what it has asked of the location provider, and how it ended
NoCall ==
    [pc |-> "unused", inst |-> 0, reinit |-> FALSE, from |-> Null,
     alone |-> FALSE, askedPerm |-> FALSE, askedLoc |-> FALSE, outcome |-> Null]

Used == {c \in Calls : calls[c].pc # "unused"}
InFlight == {c \in Calls : calls[c].pc \in {"avail", "perm", "loc"}}

\* state setters reach the hook instance that made them while it is mounted
Live(c) == mounted /\ calls[c].inst = inst

HookInit ==
    /\ mounted = TRUE
    /\ inst = 1
    /\ effectRan = FALSE
    /\ subscription = InitialState.subscription
    /\ magnetometer = InitialState.magnetometer
    /\ qiblad = InitialState.qiblad
    /\ error = InitialState.error
    /\ isLoading = InitialState.isLoading
    /\ snap = Render(InitialState)
    /\ calls = [c \in Calls |-> NoCall]
    /\ listeners = {}
    /\ removes = [c \in Calls |-> 0]
    /\ updateInterval = 0
    /\ accepted = FALSE

Init == HookInit /\ arg = None /\ out = NotApplied

\* the state cells become h and the hook renders again
SetState(h) ==
    /\ subscription' = h.subscription
    /\ magnetometer' = h.magnetometer
    /\ qiblad' = h.qiblad
    /\ error' = h.error
    /\ isLoading' = h.isLoading
    /\ snap' = Render(h)

\* the setters of invocation c: dropped once its instance is unmounted
Commit(c, h) ==
    IF Live(c) THEN SetState(h) ELSE UNCHANGED <<hookVars, snap>>

----------------------------------------------------------------------------
(* initCompass, one action per stretch between two awaits *)

\* the subscription object Magnetometer.addListener returns to invocation c
Handle(c) == <<c>>

\* NotAvailable without setIsLoading(false)
NotAvailableStillLoading(h) == [h EXCEPT !.error = ErrCompass]

\* setError('Compass is not available on this device'); setIsLoading(false)
NotAvailable(h) == [h EXCEPT !.error = ErrCompass, !.isLoading = FALSE]

\* NotGranted without setIsLoading(false)
NotGrantedStillLoading(h) == [h EXCEPT !.error = ErrPermission]

\* setError('Location permission not granted'); setIsLoading(false)
NotGranted(h) == [h EXCEPT !.error = ErrPermission, !.isLoading = FALSE]

\* TryLocation with a catch that reports the rejection as an error
TryLocationReporting(h, loc) ==
    IF loc # Fail THEN [h EXCEPT !.qiblad = BearingOf[loc]]
    ELSE [h EXCEPT !.error = "Location is not available"]

\* the try block: calculate(latitude, longitude) sets qiblad, unless
\* getCurrentPositionAsync rejected
TryLocation(h, loc) ==
    IF loc # Fail THEN [h EXCEPT !.qiblad = BearingOf[loc]] ELSE h

\* Finally without setIsLoading(false)
FinallyStillLoading(h, c) == [h EXCEPT !.subscription = Handle(c)]

\* the finally block: setIsLoading(false); subscribe() sets the subscription
Finally(h, c) == [h EXCEPT !.isLoading = FALSE, !.subscription = Handle(c)]

\* initCompass is entered: it asks Magnetometer.isAvailableAsync() and waits
Enter(c, isReinit) ==
    calls' = [calls EXCEPT ![c] =
                 [NoCall EXCEPT !.pc = "avail", !.inst = inst,
                                !.reinit = isReinit, !.from = Lifecycle,
                                !.alone = (InFlight = {})]]

\* the effect of useEffect(..., []) after the mount: initCompass()
MountEffect ==
    /\ mounted /\ ~effectRan
    /\ \E c \in Calls :
        /\ c = Cardinality(Used) + 1
        /\ Enter(c, FALSE)
    /\ effectRan' = TRUE
    /\ UNCHANGED <<mounted, inst, hookVars, snap, listeners, removes,
                   updateInterval, accepted, leafVars>>

\* the consumer calls reinitCompass(), which is initCompass
Reinit ==
    /\ mounted /\ effectRan
    /\ \E c \in Calls :
        /\ c = Cardinality(Used) + 1
        /\ Enter(c, TRUE)
    /\ UNCHANGED <<mounted, inst, effectRan, hookVars, snap, listeners,
                   removes, updateInterval, accepted, leafVars>>

\* isAvailableAsync() resolves
Available(c, isAvailable) ==
    /\ calls[c].pc = "avail"
    /\ IF ~isAvailable
       THEN /\ Commit(c, NotAvailable(Hook))
            /\ calls' = [calls EXCEPT ![c].pc = "done",
                                      ![c].outcome = "unavailable"]
       ELSE /\ UNCHANGED <<hookVars, snap>>
            /\ calls' = [calls EXCEPT ![c].pc = "perm",
                                      ![c].askedPerm = TRUE]
    /\ UNCHANGED <<mounted, inst, effectRan, listeners, removes,
                   updateInterval, accepted, leafVars>>

\* requestForegroundPermissionsAsync() resolves
Permission(c, status) ==
    /\ calls[c].pc = "perm"
    /\ IF status # "granted"
       THEN /\ Commit(c, NotGranted(Hook))
            /\ calls' = [calls EXCEPT ![c].pc = "done",
                                      ![c].outcome = "denied"]
       ELSE /\ UNCHANGED <<hookVars, snap>>
            /\ calls' = [calls EXCEPT ![c].pc = "loc",
                                      ![c].askedLoc = TRUE]
    /\ UNCHANGED <<mounted, inst, effectRan, listeners, removes,
                   updateInterval, accepted, leafVars>>

\* how the promise initCompass returned ends after the try/finally: there is
\* no catch, so a rejection of getCurrentPositionAsync passes through
Settled(loc) == IF loc # Fail THEN "done" ELSE "rejected"

\* getCurrentPositionAsync({}) resolves with coords or rejects; then finally:
\* subscribe() sets the interval and adds a listener
Location(c, loc) ==
    /\ calls[c].pc = "loc"
    /\ Commit(c, Finally(TryLocation(Hook, loc), c))
    /\ updateInterval' = UpdateIntervalMs
    /\ listeners' = listeners \cup {c}
    /\ calls' = [calls EXCEPT ![c].pc = Settled(loc),
                              ![c].outcome = IF loc # Fail THEN "located"
                                             ELSE "nofix"]
    /\ UNCHANGED <<mounted, inst, effectRan, removes, accepted, leafVars>>

----------------------------------------------------------------------------
(* The listener, unmount and mount *)

\* the listener added by invocation c gets a reading:
\* setMagnetometer(angle(data))
Sample(c, data) ==
    /\ c \in listeners
    /\ Commit(c, [Hook EXCEPT !.magnetometer = AngleOf[data]])
    /\ accepted' = (accepted \/ Live(c))
    /\ UNCHANGED <<mounted, inst, effectRan, calls, listeners, removes,
                   updateInterval, leafVars>>

\* the subscription the effect's cleanup reads: unsubscribe of the render
\* that created the effect, the first one of the instance
CleanupSubscription == InitialState.subscription

\* unsubscribe: subscription && subscription.remove()
Removed(sub) == IF sub # None THEN {sub[1]} ELSE {}

\* the listeners left by the cleanup of the mount effect: unsubscribe()
Teardown(ls) == ls \ Removed(CleanupSubscription)

\* the component is unmounted: the cleanup calls unsubscribe(); its
\* setSubscription(null) reaches no mounted instance
Unmount ==
    /\ mounted /\ effectRan
    /\ mounted' = FALSE
    /\ listeners' = Teardown(listeners)
    /\ removes' = [c \in Calls |->
                     IF c \in Removed(CleanupSubscription)
                     THEN removes[c] + 1 ELSE removes[c]]
    /\ UNCHANGED <<inst, effectRan, hookVars, snap, calls, updateInterval,
                   accepted, leafVars>>

\* the component is mounted again: a new instance of the hook, first render
Mount ==
    /\ ~mounted
    /\ inst < MaxMounts
    /\ Cardinality(Used) < MaxCalls
    /\ mounted' = TRUE
    /\ inst' = inst + 1
    /\ effectRan' = FALSE
    /\ SetState(InitialState)
    /\ accepted' = FALSE
    /\ UNCHANGED <<calls, listeners, removes, updateInterval, leafVars>>

\* one initCompass from the state h and the listeners ls, run to its end
\* with the answers r and nothing in between: the state and listeners after
RunInit(h, ls, c, r) ==
    IF ~r.avail THEN [hook |-> NotAvailable(h), listeners |-> ls]
    ELSE IF r.status # "granted" THEN [hook |-> NotGranted(h), listeners |-> ls]
    ELSE [hook |-> Finally(TryLocation(h, r.loc), c), listeners |-> ls \cup {c}]

----------------------------------------------------------------------------
(* The leaf functions alone: an argument is drawn, the function is applied *)

\* headings in [0, 360) by tenths of a degree, for direction
Headings == {k * (Deg \div 10) : k \in 0 .. (360 * 10 - 1)}

\* the whole degrees angle can return, for degree
RawHeadings == {r * Deg : r \in 0 .. 360}

\* observers for calculate: on the meridian of the target, south and north
\* of it, and the positions of the location provider
Observers ==
    {<<lat * Geo, LongK>> : lat \in {-90, -60, -30, 0, 10, 20, 23, 30, 60, 90}}
    \cup {<<p.latitude, p.longitude>> : p \in Positions}

LeafInputs ==
    {[fn |-> "direction", args |-> <<h>>] : h \in Headings}
    \cup {[fn |-> "degree", args |-> <<r>>] : r \in RawHeadings}
    \cup {[fn |-> "calculate", args |-> o] : o \in Observers}

LeafInit == HookInit /\ arg \in LeafInputs /\ out = NotApplied

Classify ==
    /\ arg.fn = "direction" /\ out = NotApplied
    /\ out' = [fn |-> "direction", value |-> direction(arg.args[1])]
    /\ UNCHANGED <<mounted, inst, effectRan, hookVars, snap, calls, listeners,
                   removes, updateInterval, accepted, arg>>

Correct ==
    /\ arg.fn = "degree" /\ out = NotApplied
    /\ out' = [fn |-> "degree", value |-> degree(arg.args[1])]
    /\ UNCHANGED <<mounted, inst, effectRan, hookVars, snap, calls, listeners,
                   removes, updateInterval, accepted, arg>>

Bear ==
    /\ arg.fn = "calculate" /\ out = NotApplied
    /\ out' = [fn |-> "calculate", value |-> calculate(arg.args[1], arg.args[2])]
    /\ UNCHANGED <<mounted, inst, effectRan, hookVars, snap, calls, listeners,
                   removes, updateInterval, accepted, arg>>

LeafNext == Classify \/ Correct \/ Bear

LeafSpec == LeafInit /\ [][LeafNext]_vars

----------------------------------------------------------------------------

Next ==
    \/ MountEffect
    \/ Reinit
    \/ \E c \in Calls, isAvailable \in BOOLEAN : Available(c, isAvailable)
    \/ \E c \in Calls, status \in {"granted", "denied"} : Permission(c, status)
    \/ \E c \in Calls, loc \in Positions \cup {Fail} : Location(c, loc)
    \/ \E c \in Calls, data \in Samples : Sample(c, data)
    \/ Unmount
    \/ Mount

Spec == Init /\ [][Next]_vars

\* every call to a provider is answered in the end
Answered ==
    \A c \in Calls :
        /\ WF_vars(\E isAvailable \in BOOLEAN : Available(c, isAvailable))
        /\ WF_vars(\E status \in {"granted", "denied"} : Permission(c, status))
        /\ WF_vars(\E loc \in Positions \cup {Fail} : Location(c, loc))

FairSpec == Spec /\ Answered

----------------------------------------------------------------------------
(* Properties *)

\* invocation c is the only initCompass its hook instance has seen
Sole(c) == \A d \in Used : d # c => calls[d].inst # calls[c].inst

\* invocation c overlaps no other: none was under way when it started and
\* none has started since
Sequential(c) == calls[c].alone /\ c = Cardinality(Used)

\* invocation c takes its last step
Ends(c, how) == calls[c].pc \in {"avail", "perm", "loc"} /\ calls'[c].outcome = how

\* C1: every subscription an initCompass opened is released exactly once by
\* the following teardown or reinitialize: none is active once the component
\* is unmounted, none is active when a reinitCompass starts, and no remove()
\* runs twice on the same subscription.
C1_ReleasedExactlyOnce ==
    [][ /\ ~mounted' => listeners' = {}
        /\ \A c \in Calls :
              calls[c].pc = "unused" /\ calls'[c].pc = "avail" /\ calls'[c].reinit
                  => listeners' = {}
        /\ \A c \in Calls : removes'[c] <= 1 ]_vars

\* C2: when the sensor is available and permission granted but the location
\* fix fails, the invocation leaves qiblad and error as they were, ends the
\* loading and opens a subscription; as the first initialization of a hook
\* instance it ends Ready with qiblad 0 and no error; and a reading then
\* delivered to its listener sets the heading fields from that reading.
C2_NoFixStillReady ==
    [][ \A c \in Calls :
          /\ Ends(c, "nofix") /\ Live(c) =>
                /\ qiblad' = qiblad /\ error' = error
                /\ isLoading' = FALSE /\ snap'.isLoading = FALSE
                /\ c \notin listeners /\ c \in listeners'
                /\ subscription' = Handle(c)
                /\ updateInterval' = UpdateIntervalMs
                /\ Sole(c) => /\ Lifecycle' = "Ready"
                              /\ snap'.qiblad = 0
                              /\ snap'.error = Null
          /\ \A data \in Samples :
                calls[c].outcome = "nofix" /\ Live(c) /\ Sample(c, data) =>
                    /\ magnetometer' = AngleOf[data]
                    /\ snap'.compassDegree = degree(magnetometer')
                    /\ snap'.compassDirection = direction(snap'.compassDegree)
                    /\ snap'.qiblad = qiblad ]_vars

\* C2 witness: a first initialization whose location fix failed is Ready with
\* bearing 0, its listener active, and a reading has moved the heading.
C2_Witness ==
    \E c \in Calls :
        /\ calls[c].outcome = "nofix" /\ calls[c].askedLoc
        /\ Live(c) /\ Sole(c)
        /\ Lifecycle = "Ready" /\ snap.qiblad = 0 /\ snap.error = Null
        /\ c \in listeners
        /\ magnetometer = 89 * Deg /\ snap.compassDirection = "N"

\* C3: when isAvailableAsync answers false the invocation ends Failed with
\* the compass-not-available error, adds no listener, and asks neither for
\* the location permission nor for a position.
C3_UnavailableFails ==
    [][ \A c \in Calls :
          Ends(c, "unavailable") =>
              /\ calls[c].pc = "avail"
              /\ ~calls'[c].askedPerm /\ ~calls'[c].askedLoc
              /\ listeners' = listeners /\ c \notin listeners'
              /\ subscription' = subscription
              /\ Live(c) => /\ Lifecycle' = "Failed"
                            /\ snap'.error = ErrCompass
                            /\ snap'.isLoading = FALSE ]_vars

\* C3 witness: an invocation that found no sensor has ended, the hook shows
\* the compass error and nothing is subscribed.
C3_Witness ==
    \E c \in Calls :
        /\ calls[c].outcome = "unavailable" /\ calls[c].pc = "done"
        /\ Live(c) /\ Lifecycle = "Failed" /\ snap.error = ErrCompass
        /\ listeners = {} /\ subscription = None

\* C4: when the sensor is available and the permission is not granted the
\* invocation ends Failed with the permission error, adds no listener and
\* asks for no position.
C4_DeniedFails ==
    [][ \A c \in Calls :
          Ends(c, "denied") =>
              /\ calls[c].pc = "perm"
              /\ calls'[c].askedPerm /\ ~calls'[c].askedLoc
              /\ listeners' = listeners /\ c \notin listeners'
              /\ subscription' = subscription
              /\ Live(c) => /\ Lifecycle' = "Failed"
                            /\ snap'.error = ErrPermission
                            /\ snap'.isLoading = FALSE ]_vars

\* C4 witness: an invocation that was denied the permission has ended, the
\* hook shows the permission error and nothing is subscribed.
C4_Witness ==
    \E c \in Calls :
        /\ calls[c].outcome = "denied" /\ calls[c].pc = "done"
        /\ Live(c) /\ Lifecycle = "Failed" /\ snap.error = ErrPermission
        /\ listeners = {} /\ subscription = None

\* C5: reinitCompass is teardown followed by initialize: from every state
\* with no initCompass under way and for every answer of the providers, it
\* gives the same lifecycle, error, bearing and active listeners as the
\* unmount cleanup followed by the initCompass of a fresh mount.
C5_ReinitIsTeardownThenInit ==
    mounted /\ effectRan /\ InFlight = {} /\ Cardinality(Used) < MaxCalls =>
        \A r \in Responses :
            LET c == Cardinality(Used) + 1
                a == RunInit(Hook, listeners, c, r)
                b == RunInit(InitialState, Teardown(listeners), c, r)
            IN  /\ Phase(a.hook) = Phase(b.hook)
                /\ a.hook.error = b.hook.error
                /\ a.hook.qiblad = b.hook.qiblad
                /\ a.listeners = b.listeners

\* C6: a reinitCompass started after an attempt ended Failed, and finding the
\* sensor available and the permission granted, ends Ready, and the error of
\* the earlier attempt is gone.
C6_ReinitRecovers ==
    [][ \A c \in Calls :
          /\ calls[c].reinit /\ calls[c].from = "Failed"
          /\ Live(c) /\ Sequential(c)
          /\ (Ends(c, "located") \/ Ends(c, "nofix"))
          => Lifecycle' = "Ready" /\ snap'.error = Null ]_vars

\* C7: a failed location fix is swallowed: it sets no error, and no
\* initCompass ends with a rejection reaching its caller.
C7_NoRejection ==
    /\ \A c \in Calls : calls[c].pc # "rejected"
    /\ \A c \in Calls : calls[c].outcome = "nofix" /\ Sole(c) /\ Live(c)
                           => error = Null

\* C8: the heading the hook returns lies in [0, 360).
C8_HeadingInRange == snap.compassDegree >= 0 /\ snap.compassDegree < 360 * Deg

\* C9 as stated: the face rotation is (360 - heading) mod 360 and lies in
\* [0, 360).
C9_FaceRotationWrapped ==
    /\ snap.compassRotate = (360 * Deg - snap.compassDegree) % (360 * Deg)
    /\ snap.compassRotate >= 0 /\ snap.compassRotate < 360 * Deg

\* C9 amended: the face rotation is 360 - heading, not reduced modulo 360, and
\* lies in [0, 360], both ends included.
C9_FaceRotation ==
    /\ snap.compassRotate = 360 * Deg - snap.compassDegree
    /\ snap.compassRotate >= 0 /\ snap.compassRotate <= 360 * Deg

\* C9 witness: a reading of 90 degrees gives heading 0 and face rotation 360.
C9_Witness ==
    magnetometer = 90 * Deg /\ snap.compassDegree = 0 /\ snap.compassRotate = 360 * Deg

\* C10: every return value of the hook is of one piece: the label is the
\* sector of its heading, the face rotation is 360 minus that heading, the
\* target rotation is the face rotation plus the bearing, unwrapped, and while
\* mounted they are those of the current reading and bearing.
C10_SnapshotOfOnePiece ==
    /\ snap.compassDirection = direction(snap.compassDegree)
    /\ snap.compassRotate = 360 * Deg - snap.compassDegree
    /\ snap.kabaRotate = snap.compassRotate + snap.qiblad
    /\ snap.compassDegree = degree(magnetometer)
    /\ snap.qiblad = qiblad

\* C10 witness: after a position and a reading the target rotation exceeds a
\* full turn and the label has moved with the heading.
C10_Witness ==
    /\ mounted /\ qiblad = 180 * Deg /\ magnetometer = 180 * Deg
    /\ snap.compassDirection = "E" /\ snap.kabaRotate = 450 * Deg

\* the hook shows Failed, and the invocation started last began after every
\* other had ended and is one that failed
FailedNow ==
    /\ Lifecycle = "Failed"
    /\ InFlight = {}
    /\ calls[Cardinality(Used)].alone
    /\ calls[Cardinality(Used)].outcome \in {"unavailable", "denied"}

\* C11: a reading delivered while the hook is not Ready (Idle, also after
\* the unmount, Initializing, or Failed by its latest invocation) changes
\* neither the raw heading nor any field of the return value.
C11_SampleOnlyWhenReady ==
    [][ \A c \in Calls, data \in Samples :
          Sample(c, data) /\ (Lifecycle \in {"Idle", "Initializing"} \/ FailedNow)
              => magnetometer' = magnetometer /\ snap' = snap ]_vars

\* C12: with no initCompass under way, the cleanup run a second time releases
\* nothing again and leaves what the first run left: Idle, with no listener
\* active.
C12_TeardownIdempotent ==
    ~mounted /\ InFlight = {} =>
        /\ Lifecycle = "Idle"
        /\ Teardown(listeners) = listeners
        /\ \A c \in Removed(CleanupSubscription) : removes[c] = 0
        /\ listeners = {}

\* C13: from the start of every initCompass, the first or a reinitCompass,
\* until it ends, the hook it belongs to reports isLoading = true (stated for
\* an invocation that overlaps no other).
C13_LoadingWhileInitializing ==
    \A c \in InFlight :
        Live(c) /\ Sequential(c) => snap.isLoading /\ Lifecycle = "Initializing"

\* the Sector Classifier's table: seven half-open bins of 45 degrees between
\* the odd multiples of 22.5 degrees, north being the rest
SectorLabels == <<"NE", "E", "SE", "S", "SW", "W", "NW">>
SectorBins ==
    {[lo |-> (2 * k - 1) * ((45 * Deg) \div 2),
      hi |-> (2 * k + 1) * ((45 * Deg) \div 2),
      label |-> SectorLabels[k]] : k \in 1 .. 7}

\* C14: direction gives every heading in [0, 360) the label of the one bin
\* of the table that holds it, N when none does; 0, 22.4 and 359.9 give N
\* and 22.5 gives NE.
C14_SectorTable ==
    out.fn = "direction" =>
        LET h   == arg.args[1]
            hit == {b \in SectorBins : b.lo <= h /\ h < b.hi}
        IN  /\ Cardinality(hit) <= 1
            /\ hit = {} => out.value = "N"
            /\ \A b \in hit : out.value = b.label
            /\ h \in {0, 2240, 35990} => out.value = "N"
            /\ h = 2250 => out.value = "NE"

\* C14 witness: direction applied to 22.5 degrees gave NE.
C14_Witness ==
    out.fn = "direction" /\ arg.args = <<2250>> /\ out.value = "NE"

\* C15: degree maps a raw heading r to r - 90 when that is not negative and
\* to r + 271 otherwise; 0 gives 271, 90 gives 0 and 45 gives 316.
C15_DeviceHeading ==
    out.fn = "degree" =>
        LET r == arg.args[1]
        IN  /\ r - 90 * Deg >= 0 => out.value = r - 90 * Deg
            /\ r - 90 * Deg < 0 => out.value = r + 271 * Deg
            /\ r = 0 => out.value = 271 * Deg
            /\ r = 90 * Deg => out.value = 0
            /\ r = 45 * Deg => out.value = 316 * Deg

\* C15 witness: degree applied to 45 gave 316.
C15_Witness ==
    out.fn = "degree" /\ arg.args = <<45 * Deg>> /\ out.value = 316 * Deg

\* C16: for an observer on the meridian of the target calculate gives 0 from
\* the south of it and 180 from the north of it.
C16_MeridianBearing ==
    out.fn = "calculate" /\ arg.args[2] = LongK =>
        /\ arg.args[1] < LatK => out.value = 0
        /\ arg.args[1] > LatK => out.value = 180 * Deg

\* C16 witness: calculate applied to 60 degrees north on the meridian gave 180.
C16_Witness ==
    out.fn = "calculate" /\ arg.args = <<60 * Geo, LongK>>
        /\ out.value = 180 * Deg

\* C17: initializations never overlap: at most one initCompass is under way
\* and at most one listener is active at any time.
C17_NoOverlap == Cardinality(InFlight) <= 1 /\ Cardinality(listeners) <= 1

\* C18: once the component is unmounted, and until it is mounted again, an
\* initCompass still under way adds no listener and changes no field: the
\* hook stays Idle.
C18_TeardownForGood ==
    [][ ~mounted /\ ~mounted' =>
            /\ listeners' \subseteq listeners
            /\ Lifecycle' = "Idle"
            /\ UNCHANGED <<hookVars, snap>> ]_vars

\* C19: when every provider call is answered, every initCompass under way
\* ends, and the hook it belongs to, if still mounted, then reports
\* isLoading = false and is Ready or Failed.
C19_InitEnds ==
    \A c \in Calls :
        (calls[c].pc \in {"avail", "perm", "loc"})
            ~> /\ calls[c].pc \in {"done", "rejected"}
               /\ Live(c) => ~snap.isLoading /\ Lifecycle \in {"Ready", "Failed"}

\* C19 witness: two invocations of the mounted hook have ended, one denied
\* the permission and one with its location fix failed, and loading is over.
C19_Witness ==
    \E c, d \in Calls :
        /\ calls[c].outcome = "denied" /\ calls[d].outcome = "nofix"
        /\ Live(c) /\ Live(d) /\ InFlight = {}
        /\ ~snap.isLoading /\ Lifecycle \in {"Ready", "Failed"}

\* C20: until a reading has reached the hook instance the raw heading is the
\* default 0, so the return value has heading 271, label W, face rotation 89
\* and target rotation 89 + bearing; it is, field for field, the return value
\* after a real reading of 0 degrees, and has no further field.
C20_DefaultHeading ==
    ~accepted =>
        /\ magnetometer = 0
        /\ snap.compassDegree = 271 * Deg
        /\ snap.compassDirection = "W"
        /\ snap.compassRotate = 89 * Deg
        /\ snap.kabaRotate = 89 * Deg + snap.qiblad
        /\ snap = Render([Hook EXCEPT !.magnetometer = AngleOf[[x |-> 1, y |-> 0]]])
        /\ DOMAIN snap = {"qiblad", "compassDirection", "compassDegree",
                          "compassRotate", "kabaRotate", "error", "isLoading"}

\* C20 witness: Ready with a bearing of 180 and a listener, before any
\* reading: the target rotation is 269.
C20_Witness ==
    /\ ~accepted /\ Lifecycle = "Ready" /\ listeners # {}
    /\ snap.qiblad = 180 * Deg /\ snap.kabaRotate = 269 * Deg

====
